---- MODULE Spec2Model ----
(***************************************************************************)
(* Model of src/ocr.py: class CVExtractor (load_prompt, get_mime_type,     *)
(* extract_cv_info, process_all_cvs).  Text is modelled as sequences of    *)
(* one-character strings so that startswith / endswith / slicing / strip   *)
(* and pathlib's suffix / stem are computed the way the code computes them.*)
(***************************************************************************)
EXTENDS Integers, Sequences, FiniteSets, TLC

VARIABLES
    folder,         \* input folder: entry name -> its kind (see Kinds)
    prompt_exists,  \* os.path.exists(self.prompt_file)
    out_folder,     \* output folder: output name -> [exists, content]
    cv_files,       \* the list built at line 92, in os.listdir order
    idx,            \* position of the for loop of line 99 (1-based)
    pc,             \* position of the program
    cv_info,        \* the decoded record held between line 107 and line 111
    console,        \* the lines printed so far
    attempts,       \* entry name -> number of invocations of extract_cv_info
    requests,       \* the generate_content requests sent so far
    inflight,       \* number of requests sent and not yet answered
    writes,         \* the open(output_file, "w") calls made so far
    response_text,  \* response.text of the last reply (line 77)
    decoder_text,   \* the argument of json.loads (line 87)
    parts,          \* how the response under test was assembled
    file_path,      \* the argument of get_mime_type
    mime_type       \* the result of get_mime_type

vars == <<folder, prompt_exists, out_folder, cv_files, idx, pc, cv_info,
          console, attempts, requests, inflight, writes, response_text,
          decoder_text, parts, file_path, mime_type>>

batchVars == <<folder, prompt_exists, out_folder, cv_files, idx, cv_info,
               console, attempts, requests, inflight, writes>>

(***************************************************************************)
(* Bounds                                                                  *)
(***************************************************************************)
MaxFiles == 2
MaxPayloadLen == 3
MaxStemLen == 2

(***************************************************************************)
(* Text helpers (Python str methods)                                       *)
(***************************************************************************)
StartsWith(s, p) == Len(s) >= Len(p) /\ SubSeq(s, 1, Len(p)) = p

EndsWith(s, p) == Len(s) >= Len(p) /\ SubSeq(s, Len(s) - Len(p) + 1, Len(s)) = p

\* s[n:]
SliceFrom(s, n) == SubSeq(s, n + 1, Len(s))

\* s[:-n]
SliceTo(s, n) == SubSeq(s, 1, Len(s) - n)

IsSpace(c) == c = " "

RECURSIVE LStrip(_)
LStrip(s) == IF s # <<>> /\ IsSpace(Head(s)) THEN LStrip(Tail(s)) ELSE s

RECURSIVE RStrip(_)
RStrip(s) == IF s # <<>> /\ IsSpace(s[Len(s)]) THEN RStrip(SliceTo(s, 1)) ELSE s

\* str.strip()
Strip(s) == RStrip(LStrip(s))

\* str.rfind(c), 1-based, 0 when c does not occur
RFind(s, c) ==
    IF \E i \in 1..Len(s) : s[i] = c
    THEN CHOOSE i \in 1..Len(s) : s[i] = c /\ \A j \in (i+1)..Len(s) : s[j] # c
    ELSE 0

UpperLetters == {"P", "D", "F", "N", "G", "J", "E", "I", "W", "B", "T", "X"}

LowerOf(c) ==
    CASE c = "P" -> "p" [] c = "D" -> "d" [] c = "F" -> "f" [] c = "N" -> "n"
      [] c = "G" -> "g" [] c = "J" -> "j" [] c = "E" -> "e" [] c = "I" -> "i"
      [] c = "W" -> "w" [] c = "B" -> "b" [] c = "T" -> "t" [] c = "X" -> "x"
      [] OTHER -> c

\* str.lower()
Lower(s) == [i \in 1..Len(s) |-> LowerOf(s[i])]

(***************************************************************************)
(* pathlib                                                                 *)
(***************************************************************************)
\* PurePath.name: the final path component
PathName(p) == SliceFrom(p, RFind(p, "/"))

\* PurePath.suffix: the part of the name from its last dot, when that dot
\* is neither the first nor the last character of the name
PathSuffix(p) ==
    LET name == PathName(p)
        i == RFind(name, ".")
    IN IF 1 < i /\ i < Len(name) THEN SliceFrom(name, i - 1) ELSE <<>>

\* PurePath.stem
PathStem(p) ==
    LET name == PathName(p)
        i == RFind(name, ".")
    IN IF 1 < i /\ i < Len(name) THEN SubSeq(name, 1, i - 1) ELSE name

(***************************************************************************)
(* get_mime_type                                                           *)
(***************************************************************************)
DefaultMime == "image/jpeg"

mime_types ==
    { << <<".", "p", "d", "f">>, "application/pdf" >>,
      << <<".", "p", "n", "g">>, "image/png" >>,
      << <<".", "j", "p", "g">>, "image/jpeg" >>,
      << <<".", "j", "p", "e", "g">>, "image/jpeg" >>,
      << <<".", "g", "i", "f">>, "image/gif" >>,
      << <<".", "w", "e", "b", "p">>, "image/webp" >> }

\* dict.get(key, default)
MimeLookup(ext) ==
    IF \E e \in mime_types : e[1] = ext
    THEN (CHOOSE e \in mime_types : e[1] = ext)[2]
    ELSE DefaultMime

get_mime_type_no_lower(path) == MimeLookup(PathSuffix(path))

get_mime_type(path) == MimeLookup(Lower(PathSuffix(path)))

(***************************************************************************)
(* Fence stripping and decoding in extract_cv_info                         *)
(***************************************************************************)
\* the backtick character (the lexer does not accept it inside a string)
Tick == "tick"

Fence == <<Tick, Tick, Tick>>

FenceJson == Fence \o <<"j", "s", "o", "n">>

strip_fences_short_slice(text) ==
    LET t0 == Strip(text)
        t1 == IF StartsWith(t0, FenceJson) THEN SliceFrom(t0, 6) ELSE t0
        t2 == IF StartsWith(t1, Fence) THEN SliceFrom(t1, 3) ELSE t1
        t3 == IF EndsWith(t2, Fence) THEN SliceTo(t2, 3) ELSE t2
    IN Strip(t3)

strip_fences_always_cut(text) ==
    LET t0 == Strip(text)
        t1 == IF StartsWith(t0, FenceJson) THEN SliceFrom(t0, 7) ELSE t0
        t2 == IF StartsWith(t1, Fence) THEN SliceFrom(t1, 3) ELSE t1
        t3 == SliceTo(t2, 3)
    IN Strip(t3)

\* lines 77-87: the text handed to json.loads
strip_fences(text) ==
    LET t0 == Strip(text)
        t1 == IF StartsWith(t0, FenceJson) THEN SliceFrom(t0, 7) ELSE t0
        t2 == IF StartsWith(t1, Fence) THEN SliceFrom(t1, 3) ELSE t1
        t3 == IF EndsWith(t2, Fence) THEN SliceTo(t2, 3) ELSE t2
    IN Strip(t3)

Digits == {"1", "2"}

DigitValue(c) == IF c = "1" THEN 1 ELSE 2

\* json.loads succeeds: over the modelled alphabet the only JSON documents
\* are the integers written with the digits 1 and 2
IsJson(text) ==
    LET t == Strip(text)
    IN t # <<>> /\ \A i \in 1..Len(t) : t[i] \in Digits

RECURSIVE json_loads(_)
json_loads(text) ==
    LET t == Strip(text)
    IN IF Len(t) = 0 THEN 0
       ELSE 10 * json_loads(SliceTo(t, 1)) + DigitValue(t[Len(t)])

RECURSIVE json_dump(_)
json_dump(n) ==
    IF n < 10 THEN << IF n = 1 THEN "1" ELSE "2" >>
    ELSE Append(json_dump(n \div 10), IF n % 10 = 1 THEN "1" ELSE "2")

(***************************************************************************)
(* The file system and the inference service                               *)
(***************************************************************************)
\* the entry names that may occur in the input folder
Names ==
    { <<"a", ".", "p", "d", "f">>,
      <<"a", ".", "p", "n", "g">>,
      <<"b", ".", "J", "P", "G">>,
      <<"c">> }

\* "file": a readable regular file; "locked": a regular file that open()
\* refuses to read; "dir": a subfolder.  An entry deleted after the folder
\* was listed becomes "removed".
Kinds == {"absent", "file", "locked", "dir"}

\* os.path.isfile
IsFile(n) == folder[n] \in {"file", "locked"}

\* line 101
output_filename(cv_filename) == PathStem(cv_filename) \o <<"_extracted.json">>

OutNames == {output_filename(n) : n \in Names}

NoFile == [exists |-> FALSE, content |-> <<>>]

\* the texts the inference service may answer with
Responses ==
    { <<"1">>,
      FenceJson \o <<" ", "2", " ">> \o Fence,
      <<"n", "o">> }

\* the classes of the exceptions raised inside the try block of line 106;
\* all of them derive from Exception
ExceptionClasses ==
    {"FileNotFoundError", "PermissionError", "IsADirectoryError",
     "APIError", "JSONDecodeError", "OSError"}

Perms(S) ==
    {s \in [1..Cardinality(S) -> S] : \A i, j \in 1..Cardinality(S) : s[i] = s[j] => i = j}

Line(kind, file, msg) == [kind |-> kind, file |-> file, msg |-> msg]

cv_filename == cv_files[idx]

(***************************************************************************)
(* process_all_cvs                                                         *)
(***************************************************************************)
Init ==
    /\ folder \in {f \in [Names -> Kinds] :
                     Cardinality({n \in Names : f[n] # "absent"}) <= MaxFiles}
    /\ prompt_exists \in BOOLEAN
    /\ out_folder = [o \in OutNames |-> NoFile]
    /\ cv_files = <<>>
    /\ idx = 0
    /\ pc = "start"
    /\ cv_info = 0
    /\ console = <<>>
    /\ attempts = [n \in Names |-> 0]
    /\ requests = <<>>
    /\ inflight = 0
    /\ writes = <<>>
    /\ response_text = <<>>
    /\ decoder_text = <<>>
    /\ parts = <<>>
    /\ file_path = <<>>
    /\ mime_type = ""

list_all_entries == {n \in Names : folder[n] # "absent"}

\* line 92: the regular files directly inside the input folder
list_regular_files == {n \in Names : IsFile(n)}

\* lines 92-97
ListFiles ==
    /\ pc = "start"
    /\ \E order \in Perms(list_regular_files) :
          /\ cv_files' = order
          /\ IF order = <<>>
             THEN /\ console' = Append(console, Line("nofiles", <<>>, "No files found"))
                  /\ pc' = "done"
                  /\ idx' = idx
             ELSE /\ console' = Append(console, Line("found", <<>>, "Found"))
                  /\ pc' = "loop"
                  /\ idx' = 1
    /\ UNCHANGED <<folder, prompt_exists, out_folder, cv_info, attempts, requests,
                   inflight, writes, response_text, decoder_text, parts,
                   file_path, mime_type>>

\* lines 99-104: the next iteration of the for loop
BeginFile ==
    /\ pc = "loop"
    /\ idx <= Len(cv_files)
    /\ console' = Append(console, Line("processing", cv_filename, "Processing"))
    /\ pc' = "try"
    /\ UNCHANGED <<folder, prompt_exists, out_folder, cv_files, idx, cv_info,
                   attempts, requests, inflight, writes, response_text,
                   decoder_text, parts, file_path, mime_type>>

\* line 99: the for loop is exhausted and process_all_cvs returns
EndLoop ==
    /\ pc = "loop"
    /\ idx > Len(cv_files)
    /\ pc' = "done"
    /\ UNCHANGED <<batchVars, response_text, decoder_text, parts, file_path, mime_type>>

\* line 114: except Exception
CaughtOnlyFileNotFound(class) == class = "FileNotFoundError"

Caught(class) == class \in ExceptionClasses

\* an exception raised inside the try block: lines 114-115 report it and
\* the loop goes on, unless the except clause does not match its class
FailAbortsBatch(class, msg) ==
    IF Caught(class)
    THEN /\ console' = Append(console, Line("error", cv_filename, msg))
         /\ idx' = idx
         /\ pc' = "done"
    ELSE /\ pc' = "crashed"
         /\ UNCHANGED <<console, idx>>

Fail(class, msg) ==
    IF Caught(class)
    THEN /\ console' = Append(console, Line("error", cv_filename, msg))
         /\ idx' = idx + 1
         /\ pc' = "loop"
    ELSE /\ pc' = "crashed"
         /\ UNCHANGED <<console, idx>>

load_prompt_never_raises == FALSE

\* lines 22-25
load_prompt_raises == ~prompt_exists

send_request_without_waiting ==
    /\ requests' = Append(requests, [file |-> cv_filename,
                                     mime_type |-> get_mime_type(cv_filename)])
    /\ inflight' = inflight + 1
    /\ pc' = "loop"
    /\ idx' = idx + 1
    /\ UNCHANGED console

\* lines 58-74: the request is sent and the program blocks until the
\* service answers
send_request ==
    /\ requests' = Append(requests, [file |-> cv_filename,
                                     mime_type |-> get_mime_type(cv_filename)])
    /\ inflight' = inflight + 1
    /\ pc' = "await"
    /\ UNCHANGED <<console, idx>>

\* lines 107, 45-74: extract_cv_info up to the moment the request is sent
extract_cv_info_call ==
    /\ pc = "try"
    /\ attempts' = [attempts EXCEPT ![cv_filename] = @ + 1]
    /\ file_path' = cv_filename
    /\ IF folder[cv_filename] \in {"absent", "removed"}
       THEN /\ Fail("FileNotFoundError", "File not found")
            /\ UNCHANGED <<mime_type, requests, inflight>>
       ELSE /\ mime_type' = get_mime_type(cv_filename)
            /\ IF folder[cv_filename] = "locked"
               THEN /\ Fail("PermissionError", "Permission denied")
                    /\ UNCHANGED <<requests, inflight>>
               ELSE IF folder[cv_filename] = "dir"
               THEN /\ Fail("IsADirectoryError", "Is a directory")
                    /\ UNCHANGED <<requests, inflight>>
               ELSE IF load_prompt_raises
               THEN /\ Fail("FileNotFoundError", "Prompt file not found")
                    /\ UNCHANGED <<requests, inflight>>
               ELSE send_request
    /\ UNCHANGED <<folder, prompt_exists, out_folder, cv_files, cv_info, writes,
                   response_text, decoder_text, parts>>

\* line 58: generate_content raises (network, auth, quota)
ServiceError ==
    /\ pc = "await"
    /\ inflight' = inflight - 1
    /\ Fail("APIError", "API error")
    /\ UNCHANGED <<folder, prompt_exists, out_folder, cv_files, cv_info, attempts,
                   requests, writes, response_text, decoder_text, parts,
                   file_path, mime_type>>

\* lines 58, 76-88: generate_content returns a text, which is stripped of
\* its fences and decoded
ServiceReply ==
    /\ pc = "await"
    /\ inflight' = inflight - 1
    /\ \E r \in Responses :
          /\ response_text' = r
          /\ decoder_text' = strip_fences(r)
          /\ IF IsJson(strip_fences(r))
             THEN /\ cv_info' = json_loads(strip_fences(r))
                  /\ pc' = "save"
                  /\ UNCHANGED <<console, idx>>
             ELSE /\ Fail("JSONDecodeError", "Expecting value")
                  /\ UNCHANGED cv_info
    /\ UNCHANGED <<folder, prompt_exists, out_folder, cv_files, attempts,
                   requests, writes, parts, file_path, mime_type>>

\* lines 110-112: open the output file for writing (which creates or
\* truncates it), dump the record, report success.  open() may fail, and
\* the write may fail once the file is open.
SaveOutput ==
    /\ pc = "save"
    /\ LET output_file == output_filename(cv_filename) IN
       \E outcome \in {"ok", "open_fails", "write_fails"} :
          /\ writes' = Append(writes, [file |-> cv_filename, path |-> output_file,
                                       record |-> cv_info, outcome |-> outcome])
          /\ CASE outcome = "ok" ->
                    /\ out_folder' = [out_folder EXCEPT ![output_file] =
                                        [exists |-> TRUE, content |-> json_dump(cv_info)]]
                    /\ console' = Append(console, Line("saved", cv_filename, "Saved"))
                    /\ idx' = idx + 1
                    /\ pc' = "loop"
               [] outcome = "open_fails" ->
                    /\ out_folder' = out_folder
                    /\ Fail("OSError", "cannot open output file")
               [] outcome = "write_fails" ->
                    /\ out_folder' = [out_folder EXCEPT ![output_file] =
                                        [exists |-> TRUE, content |-> <<>>]]
                    /\ Fail("OSError", "cannot write output file")
    /\ UNCHANGED <<folder, prompt_exists, cv_files, cv_info, attempts, requests,
                   inflight, response_text, decoder_text, parts, file_path, mime_type>>

\* another process deletes an enumerated file before its turn
RemoveFile ==
    /\ pc \in {"loop", "try", "await", "save"}
    /\ \E j \in 1..Len(cv_files) :
          /\ j > idx \/ (j = idx /\ pc = "loop")
          /\ folder[cv_files[j]] # "removed"
          /\ folder' = [folder EXCEPT ![cv_files[j]] = "removed"]
    /\ UNCHANGED <<prompt_exists, out_folder, cv_files, idx, pc, cv_info, console,
                   attempts, requests, inflight, writes, response_text,
                   decoder_text, parts, file_path, mime_type>>

ProgramStep ==
    \/ ListFiles
    \/ BeginFile
    \/ EndLoop
    \/ extract_cv_info_call
    \/ ServiceError
    \/ ServiceReply
    \/ SaveOutput

Next ==
    \/ ListFiles
    \/ BeginFile
    \/ EndLoop
    \/ extract_cv_info_call
    \/ ServiceError
    \/ ServiceReply
    \/ SaveOutput
    \/ RemoveFile

Spec == Init /\ [][Next]_vars

\* the program keeps running and every inference call eventually returns
FairSpec == Spec /\ WF_vars(ProgramStep)

TypeOK ==
    /\ pc \in {"start", "loop", "try", "await", "save", "done", "crashed",
               "strip_in", "strip_out", "mime_in", "mime_out"}
    /\ inflight \in 0..1

(***************************************************************************)
(* Fence stripping on its own: the response is assembled from whitespace,  *)
(* an opener, a payload, a closer and whitespace, then lines 77-87 run     *)
(***************************************************************************)
PayloadAlphabet == {Tick, "j", "s", "o", "n", "1", " "}

Payloads == UNION {[1..k -> PayloadAlphabet] : k \in 0..MaxPayloadLen}

Openers == {<<>>, Fence, FenceJson, Fence \o <<"j", "s">>}

Closers == {<<>>, Fence}

Blanks == {<<>>, <<" ">>}

Assemble(p) == p.lead \o p.opener \o p.payload \o p.closer \o p.trail

IdleBatch ==
    /\ folder = [n \in Names |-> "absent"]
    /\ prompt_exists = TRUE
    /\ out_folder = [o \in OutNames |-> NoFile]
    /\ cv_files = <<>>
    /\ idx = 0
    /\ cv_info = 0
    /\ console = <<>>
    /\ attempts = [n \in Names |-> 0]
    /\ requests = <<>>
    /\ inflight = 0
    /\ writes = <<>>

InitStrip ==
    /\ IdleBatch
    /\ pc = "strip_in"
    /\ parts \in [lead : Blanks, opener : Openers, payload : Payloads,
                  closer : Closers, trail : Blanks]
    /\ response_text = Assemble(parts)
    /\ decoder_text = <<>>
    /\ file_path = <<>>
    /\ mime_type = ""

\* lines 77-87
StripResponse ==
    /\ pc = "strip_in"
    /\ decoder_text' = strip_fences(response_text)
    /\ pc' = "strip_out"
    /\ UNCHANGED <<batchVars, response_text, parts, file_path, mime_type>>

NextStrip == StripResponse

SpecStrip == InitStrip /\ [][NextStrip]_vars

(***************************************************************************)
(* get_mime_type on its own: the path is assembled from a directory        *)
(* prefix, a stem and an extension in any letter case                      *)
(***************************************************************************)
UpperOf(c) ==
    IF \E u \in UpperLetters : LowerOf(u) = c
    THEN CHOOSE u \in UpperLetters : LowerOf(u) = c
    ELSE c

\* every spelling of e in upper and lower case letters
CaseVariants(e) ==
    {[i \in 1..Len(e) |-> IF up[i] THEN UpperOf(e[i]) ELSE e[i]] :
        up \in [1..Len(e) -> BOOLEAN]}

ExtWords ==
    {e[1] : e \in mime_types} \cup {<<".", "t", "x", "t">>, <<".", "p", "d", "f", "x">>}

Exts == {<<>>, <<".">>} \cup UNION {CaseVariants(e) : e \in ExtWords}

Stems == UNION {[1..k -> {"a", "."}] : k \in 0..MaxStemLen}

Dirs == {<<>>, <<"x", ".", "p", "d", "f", "/">>}

\* a final path component is never empty and never "."
MimeInputs ==
    {p \in [dir : Dirs, stem : Stems, ext : Exts] :
        p.stem \o p.ext # <<>> /\ p.stem \o p.ext # <<".">>}

InitMime ==
    /\ IdleBatch
    /\ pc = "mime_in"
    /\ parts \in MimeInputs
    /\ file_path = parts.dir \o parts.stem \o parts.ext
    /\ mime_type = ""
    /\ response_text = <<>>
    /\ decoder_text = <<>>

\* lines 30-41
Classify ==
    /\ pc = "mime_in"
    /\ mime_type' = get_mime_type(file_path)
    /\ pc' = "mime_out"
    /\ UNCHANGED <<batchVars, response_text, decoder_text, parts, file_path>>

NextMime == Classify

SpecMime == InitMime /\ [][NextMime]_vars

(***************************************************************************)
(* Properties                                                              *)
(***************************************************************************)
Range(q) == {q[i] : i \in 1..Len(q)}

ErrorLines(f) == {i \in 1..Len(console) : console[i].kind = "error" /\ console[i].file = f}

SavedLines(f) == {i \in 1..Len(console) : console[i].kind = "saved" /\ console[i].file = f}

FinalLines(f) == ErrorLines(f) \cup SavedLines(f)

WritesOf(f) == {i \in 1..Len(writes) : writes[i].file = f}

HasOutput(f) == out_folder[output_filename(f)].exists

OutputFiles == {o \in OutNames : out_folder[o].exists}

Succeeded == {f \in Range(cv_files) : SavedLines(f) # {}}

\* C1: once process_all_cvs has returned, every enumerated file has either
\* an output file at its derived path or a reported failure line, never
\* neither and never both
C1_ExactlyOneOutcome ==
    pc = "done" =>
        \A f \in Range(cv_files) :
            /\ HasOutput(f) \/ ErrorLines(f) # {}
            /\ ~(HasOutput(f) /\ ErrorLines(f) # {})

\* C2: every regular file of the input folder, and nothing else, gets at
\* most one extraction attempt and at most one output write while the batch
\* runs, no exception ends the batch, and when the batch has returned every
\* enumerated file has had exactly one attempt
C2_OneAttemptPerFile ==
    /\ pc # "crashed"
    /\ \A n \in Names :
          /\ attempts[n] <= 1
          /\ Cardinality(WritesOf(n)) <= 1
          /\ n \notin Range(cv_files) => attempts[n] = 0
          /\ (pc # "start" /\ IsFile(n)) => n \in Range(cv_files)
    /\ \A j \in 1..Len(cv_files) :
          (j < idx \/ pc = "done") => attempts[cv_files[j]] = 1

\* a batch of two files whose first file failed and whose second file was
\* attempted all the same
C2_Witness ==
    /\ pc = "done"
    /\ Len(cv_files) = 2
    /\ ErrorLines(cv_files[1]) # {}
    /\ attempts[cv_files[2]] = 1

\* C3: no exception escapes the per-file try block, and the batch eventually
\* returns with exactly one closing line (saved or error) for every
\* enumerated file
C3_AlwaysCompletes ==
    /\ [](pc # "crashed")
    /\ <>(pc = "done" /\ \A f \in Range(cv_files) : Cardinality(FinalLines(f)) = 1)

\* a completed batch in which a decode error and a service error were both
\* reported
C3_Witness ==
    /\ pc = "done"
    /\ \E i \in 1..Len(console) : console[i].msg = "Expecting value"
    /\ \E i \in 1..Len(console) : console[i].msg = "API error"

\* C4: once process_all_cvs has returned, the output folder holds as many
\* files as there are inputs reported as saved, and the file at each saved
\* input's derived path holds that input's record
C4_OneOutputPerSuccess ==
    pc = "done" =>
        /\ Cardinality(OutputFiles) = Cardinality(Succeeded)
        /\ \A i \in 1..Len(writes) :
              writes[i].outcome = "ok" =>
                  out_folder[writes[i].path] =
                      [exists |-> TRUE, content |-> json_dump(writes[i].record)]

\* C5 as stated: with the prompt file missing, every reported failure is
\* "Prompt file not found", nothing is sent or written, and the batch
\* returns with one failed attempt per enumerated file
C5_AllFailWithPromptNotFound ==
    ~prompt_exists =>
        /\ requests = <<>>
        /\ writes = <<>>
        /\ OutputFiles = {}
        /\ pc # "crashed"
        /\ \A i \in 1..Len(console) :
              console[i].kind = "error" => console[i].msg = "Prompt file not found"
        /\ \A j \in 1..Len(cv_files) :
              (j < idx \/ pc = "done") =>
                  /\ attempts[cv_files[j]] = 1
                  /\ Cardinality(ErrorLines(cv_files[j])) = 1

\* C5 amended: with the prompt file missing, every attempt fails before a
\* request is sent, nothing is written, the batch returns with one failed
\* attempt per enumerated file, and the failure is "Prompt file not found"
\* for every file that is a readable regular file when its turn comes
C5_AllFailBeforeRequest ==
    ~prompt_exists =>
        /\ requests = <<>>
        /\ writes = <<>>
        /\ OutputFiles = {}
        /\ pc # "crashed"
        /\ \A i \in 1..Len(console) :
              (console[i].kind = "error" /\ folder[console[i].file] = "file")
                  => console[i].msg = "Prompt file not found"
        /\ \A j \in 1..Len(cv_files) :
              (j < idx \/ pc = "done") =>
                  /\ attempts[cv_files[j]] = 1
                  /\ Cardinality(ErrorLines(cv_files[j])) = 1

\* a completed batch without prompt file: two readable files, two
\* "Prompt file not found" lines
C5_Witness ==
    /\ ~prompt_exists
    /\ pc = "done"
    /\ Len(cv_files) = 2
    /\ \A j \in 1..2 :
          /\ folder[cv_files[j]] = "file"
          /\ \E i \in ErrorLines(cv_files[j]) : console[i].msg = "Prompt file not found"

NoRegularFiles == \A n \in Names : folder[n] \in {"absent", "dir"}

\* C6: when the input folder holds no regular file, nothing is attempted,
\* sent or written, and the only line ever printed is "no files found"
C6_EmptyFolder ==
    NoRegularFiles =>
        /\ writes = <<>>
        /\ OutputFiles = {}
        /\ requests = <<>>
        /\ inflight = 0
        /\ \A n \in Names : attempts[n] = 0
        /\ \/ pc = "start" /\ console = <<>>
           \/ pc = "done" /\ console = <<Line("nofiles", <<>>, "No files found")>>

\* the batch has returned on a folder that holds only subfolders
C6_Witness ==
    /\ pc = "done"
    /\ NoRegularFiles
    /\ \E n \in Names : folder[n] = "dir"
    /\ console = <<Line("nofiles", <<>>, "No files found")>>

\* the trimmed response with the three marker forms removed in order, each
\* at most once
MarkersRemoved(text) ==
    LET t == Strip(text)
        a == IF StartsWith(t, FenceJson)
             THEN (IF StartsWith(SliceFrom(t, 7), Fence) THEN 10 ELSE 7)
             ELSE (IF StartsWith(t, Fence) THEN 3 ELSE 0)
        rest == SliceFrom(t, a)
        b == IF EndsWith(rest, Fence) THEN 3 ELSE 0
    IN SubSeq(t, a + 1, Len(t) - b)

CleanCore == parts.opener \o parts.payload \o parts.closer

IsClean(t) ==
    /\ t # <<>> => ~IsSpace(t[1]) /\ ~IsSpace(t[Len(t)])
    /\ ~StartsWith(t, Fence)
    /\ ~EndsWith(t, Fence)

\* C8: a response whose trimmed text neither begins nor ends with a fence
\* reaches the decoder as that trimmed text, unchanged
C8_CleanTextUnchanged ==
    (pc = "strip_out" /\ IsClean(CleanCore)) => decoder_text = CleanCore

\* a clean text with blanks around it and a backtick inside it went through
C8_Witness ==
    /\ pc = "strip_out"
    /\ parts.lead = <<" ">>
    /\ parts.trail = <<" ">>
    /\ parts.opener = <<>>
    /\ parts.closer = <<>>
    /\ parts.payload = <<"1", Tick, "2">> \/ parts.payload = <<"1", Tick, "1">>
    /\ decoder_text = parts.payload

ClassifiedName == parts.stem \o parts.ext

\* the name ends, in any letter case, with the extension e after a
\* non-empty stem
HasExtension(e) ==
    /\ Len(ClassifiedName) > Len(e)
    /\ EndsWith(Lower(ClassifiedName), e)

ExpectedMime ==
    IF HasExtension(<<".", "p", "d", "f">>) THEN "application/pdf"
    ELSE IF HasExtension(<<".", "p", "n", "g">>) THEN "image/png"
    ELSE IF HasExtension(<<".", "g", "i", "f">>) THEN "image/gif"
    ELSE IF HasExtension(<<".", "w", "e", "b", "p">>) THEN "image/webp"
    ELSE IF HasExtension(<<".", "j", "p", "g">>) THEN "image/jpeg"
    ELSE IF HasExtension(<<".", "j", "p", "e", "g">>) THEN "image/jpeg"
    ELSE "image/jpeg"

\* C9: get_mime_type returns a label for every path, the label of the
\* lower-cased extension for the six known extensions in any letter case
\* and image/jpeg for any other or missing extension
C9_MimeTable ==
    pc = "mime_out" =>
        /\ mime_type \in {e[2] : e \in mime_types}
        /\ mime_type = ExpectedMime

\* an upper-case .PDF below a directory was classified as application/pdf
C9_Witness ==
    /\ pc = "mime_out"
    /\ parts.dir # <<>>
    /\ parts.ext = <<".", "P", "D", "F">>
    /\ mime_type = "application/pdf"

\* the file at position j of the enumeration has been fully dealt with: one
\* closing line, and if that line reports success its output file exists
Completed(j) ==
    LET f == cv_files[j] IN
    /\ Cardinality(FinalLines(f)) = 1
    /\ SavedLines(f) # {} => HasOutput(f)

\* C10: at most one request is in flight, only while the program waits for
\* it, and while the file at the loop position is being processed every
\* earlier file is completed and no later file has been touched
C10_OneAtATime ==
    /\ inflight <= 1
    /\ inflight = 1 <=> pc = "await"
    /\ Len(requests) <= idx
    /\ \A j \in 1..Len(cv_files) :
          /\ j < idx => Completed(j)
          /\ j > idx => attempts[cv_files[j]] = 0 /\ FinalLines(cv_files[j]) = {}
          /\ (j = idx /\ pc \in {"try", "await", "save"}) => FinalLines(cv_files[j]) = {}

\* the second file's request is in flight after the first file was saved
C10_Witness ==
    /\ pc = "await"
    /\ idx = 2
    /\ inflight = 1
    /\ SavedLines(cv_files[1]) # {}
    /\ HasOutput(cv_files[1])

====
